---- MODULE Spec2Model ----
(***************************************************************************)
(* Model of backend/phishing_backend.py: the POST /analyze handler          *)
(* (analyze_email) and the three steps it sequences, extract_email_data,    *)
(* scan_links_with_virustotal and analyze_with_chatgpt.                     *)
(*                                                                         *)
(* Strings whose structure the code inspects are sequences of tokens: a     *)
(* link is a sequence such as <<"https://", "a.com">>, so startswith is a   *)
(* prefix test, and a model reply is a sequence of lexical tokens that      *)
(* json.loads has to decode.  Python dicts are functions from keys to       *)
(* values; JSON values carry a type tag t.                                  *)
(***************************************************************************)
EXTENDS Integers, Sequences, FiniteSets, TLC

VARIABLES
    pc,               \* position of analyze_email: "start", "scan", "assess", "done"
    body,             \* the request's JSON body (request.json)
    email_text,       \* analyze_email's email_text
    links,            \* analyze_email's links
    i,                \* number of links the scan loop has finished
    analysis_results, \* scan_links_with_virustotal's analysis_results
    calls,            \* outbound calls to the reputation service, in order
    served,           \* what the reputation service answered for each link scanned
    raised,           \* the exception in flight out of a step, or NoException
    reply,            \* what the language-model call produced
    phishing_score,   \* analyze_email's phishing_score
    response          \* the HTTP response, or NoResponse

vars == <<pc, body, email_text, links, i, analysis_results, calls, served,
          raised, reply, phishing_score, response>>

\* Largest number of nodes in a submitted document.
MaxNodes == 2

-----------------------------------------------------------------------------
(* JSON values, as json.loads and response.json() produce them.            *)

JNull == [t |-> "null"]
JInt(n) == [t |-> "int", n |-> n]
\* A string value is a sequence of words; dict keys are plain strings.
JStr(s) == [t |-> "str", s |-> s]
JBool(b) == [t |-> "bool", b |-> b]
JArr(a) == [t |-> "list", a |-> a]
JObj(f) == [t |-> "dict", f |-> f]

EmptyDict == [k \in {} |-> JNull]

\* Mutant of DictPut: an existing key keeps its first value (setdefault).
DictPut_KeepFirst(f, k, v) ==
    [x \in (DOMAIN f) \cup {k} |-> IF x \in DOMAIN f THEN f[x] ELSE v]

\* d[k] = v on a dict: an existing key is overwritten.
DictPut(f, k, v) == [x \in (DOMAIN f) \cup {k} |-> IF x = k THEN v ELSE f[x]]

\* Exceptions are records; str(e) is the field msg, a sequence of words.
NoException == [type |-> "none", msg |-> <<>>]
Exc(type, msg) == [type |-> type, msg |-> msg]

\* The type name Python prints in "'int' object is not subscriptable".
PyTypeName(v) ==
    CASE v.t = "null" -> "NoneType"
      [] v.t = "int"  -> "int"
      [] v.t = "bool" -> "bool"
      [] v.t = "str"  -> "str"
      [] v.t = "list" -> "list"
      [] v.t = "dict" -> "dict"

\* key in v, for a string key: [ok, val] or [ok |-> FALSE, exc].  Words
\* are atomic here, so containment in a string is being one of its words.
PyIn(key, v) ==
    CASE v.t = "dict" -> [ok |-> TRUE, val |-> key \in DOMAIN v.f]
      [] v.t = "list" -> [ok |-> TRUE, val |-> \E n \in DOMAIN v.a : v.a[n] = JStr(<<key>>)]
      [] v.t = "str"  -> [ok |-> TRUE, val |-> \E n \in DOMAIN v.s : v.s[n] = key]
      [] OTHER -> [ok |-> FALSE,
                   exc |-> Exc("TypeError", <<"argument of type", PyTypeName(v), "is not iterable">>)]

\* v[key], for a string key.
PyGetItem(v, key) ==
    CASE v.t = "dict" ->
            IF key \in DOMAIN v.f
            THEN [ok |-> TRUE, val |-> v.f[key]]
            ELSE [ok |-> FALSE, exc |-> Exc("KeyError", <<key>>)]
      [] v.t = "list" ->
            [ok |-> FALSE, exc |-> Exc("TypeError", <<"list indices must be integers or slices, not str">>)]
      [] v.t = "str" ->
            [ok |-> FALSE, exc |-> Exc("TypeError", <<"string indices must be integers">>)]
      [] OTHER ->
            [ok |-> FALSE, exc |-> Exc("TypeError", <<PyTypeName(v), "object is not subscriptable">>)]

-----------------------------------------------------------------------------
(* Text of a model reply: a sequence of lexical tokens.                    *)

Punct(s) == [k |-> "punct", s |-> s, n |-> 0]
StrTok(s) == [k |-> "string", s |-> s, n |-> 0]
NumTok(n) == [k |-> "number", s |-> "", n |-> n]
LitTok(s) == [k |-> "literal", s |-> s, n |-> 0]
Word(s) == [k |-> "word", s |-> s, n |-> 0]
Space == [k |-> "space", s |-> " ", n |-> 0]
EndOfText == [k |-> "end", s |-> "", n |-> 0]

At(s, p) == IF p \in 1..Len(s) THEN s[p] ELSE EndOfText

RECURSIVE SkipWs(_, _)
\* The index of the first token at or after p that is not whitespace.
SkipWs(s, p) == IF At(s, p) = Space THEN SkipWs(s, p + 1) ELSE p

RECURSIVE LStrip(_)
LStrip(s) == IF s # <<>> /\ Head(s) = Space THEN LStrip(Tail(s)) ELSE s

RECURSIVE RStrip(_)
RStrip(s) ==
    IF s # <<>> /\ s[Len(s)] = Space THEN RStrip(SubSeq(s, 1, Len(s) - 1)) ELSE s

\* str.strip()
Strip(s) == RStrip(LStrip(s))

ParseFail(msg) == [ok |-> FALSE, exc |-> Exc("JSONDecodeError", <<msg>>)]

RECURSIVE ParseValue(_, _)
RECURSIVE ParseElements(_, _, _)
RECURSIVE ParseMembers(_, _, _)

\* The elements of an array, a value expected at p; acc holds those read.
ParseElements(s, p, acc) ==
    LET r == ParseValue(s, SkipWs(s, p)) IN
    IF ~r.ok THEN r
    ELSE LET q == SkipWs(s, r.next) IN
         CASE At(s, q) = Punct(",") -> ParseElements(s, q + 1, Append(acc, r.val))
           [] At(s, q) = Punct("]") -> [ok |-> TRUE, val |-> JArr(Append(acc, r.val)), next |-> q + 1]
           [] OTHER -> ParseFail("Expecting ',' delimiter")

\* The members of an object, a key expected at p; a repeated key keeps the
\* later value.
ParseMembers(s, p, acc) ==
    LET kq == SkipWs(s, p) IN
    IF At(s, kq).k # "string"
    THEN ParseFail("Expecting property name enclosed in double quotes")
    ELSE LET cq == SkipWs(s, kq + 1) IN
         IF At(s, cq) # Punct(":")
         THEN ParseFail("Expecting ':' delimiter")
         ELSE LET r == ParseValue(s, SkipWs(s, cq + 1)) IN
              IF ~r.ok THEN r
              ELSE LET q == SkipWs(s, r.next)
                       acc2 == DictPut(acc, At(s, kq).s, r.val) IN
                   CASE At(s, q) = Punct(",") -> ParseMembers(s, q + 1, acc2)
                     [] At(s, q) = Punct("}") -> [ok |-> TRUE, val |-> JObj(acc2), next |-> q + 1]
                     [] OTHER -> ParseFail("Expecting ',' delimiter")

\* One JSON value starting at p: [ok, val, next] or [ok |-> FALSE, exc].
ParseValue(s, p) ==
    LET tok == At(s, p) IN
    CASE tok.k = "number" -> [ok |-> TRUE, val |-> JInt(tok.n), next |-> p + 1]
      [] tok.k = "string" -> [ok |-> TRUE, val |-> JStr(<<tok.s>>), next |-> p + 1]
      [] tok = LitTok("null") -> [ok |-> TRUE, val |-> JNull, next |-> p + 1]
      [] tok = LitTok("true") -> [ok |-> TRUE, val |-> JBool(TRUE), next |-> p + 1]
      [] tok = LitTok("false") -> [ok |-> TRUE, val |-> JBool(FALSE), next |-> p + 1]
      [] tok = Punct("[") ->
            IF At(s, SkipWs(s, p + 1)) = Punct("]")
            THEN [ok |-> TRUE, val |-> JArr(<<>>), next |-> SkipWs(s, p + 1) + 1]
            ELSE ParseElements(s, p + 1, <<>>)
      [] tok = Punct("{") ->
            IF At(s, SkipWs(s, p + 1)) = Punct("}")
            THEN [ok |-> TRUE, val |-> JObj(EmptyDict), next |-> SkipWs(s, p + 1) + 1]
            ELSE ParseMembers(s, p + 1, EmptyDict)
      [] OTHER -> ParseFail("Expecting value")

\* json.loads(s): one value, whitespace allowed around it, nothing after it.
json_loads(s) ==
    LET r == ParseValue(s, SkipWs(s, 1)) IN
    IF ~r.ok THEN r
    ELSE IF SkipWs(s, r.next) <= Len(s) THEN ParseFail("Extra data")
    ELSE [ok |-> TRUE, val |-> r.val]

-----------------------------------------------------------------------------
(* extract_email_data                                                      *)

\* A markup string, held as the nodes html.parser finds in it, in document
\* order.  A node has a tag, its attributes (a dict) and its own text.
JMarkup(doc) == [t |-> "str", doc |-> doc]

Anchor(href) == [tag |-> "a", attrs |-> [a \in {"href"} |-> href], text |-> <<"Reset">>]
BareAnchor == [tag |-> "a", attrs |-> [a \in {} |-> <<>>], text |-> <<"top">>]
Para == [tag |-> "p", attrs |-> [a \in {} |-> <<>>], text |-> <<" ", "Dear user,", " ">>]

\* The href values submitted: without a scheme, with each scheme, empty.
Hrefs == { <<"a.com">>, <<"https://", "a.com">>, <<"http://", "b.com">>, <<>> }

Nodes == {Anchor(h) : h \in Hrefs} \cup {BareAnchor, Para}

Docs == UNION {[1..n -> Nodes] : n \in 0..MaxNodes}

\* soup.find_all(name, **{attr: True}): the nodes with that tag whose
\* attribute is present (True matches any value that is not None, the empty
\* one included), in document order.
RECURSIVE FindAll(_, _, _)
FindAll(doc, name, attr) ==
    IF doc = <<>> THEN <<>>
    ELSE LET n == Head(doc)
             rest == FindAll(Tail(doc), name, attr) IN
         IF n.tag = name /\ attr \in DOMAIN n.attrs THEN <<n>> \o rest ELSE rest

\* Mutant of find_all_a_href: an empty href is skipped.
find_all_a_href_NonEmpty(doc) ==
    LET Filled(n) == n.attrs["href"] # <<>> IN SelectSeq(FindAll(doc, "a", "href"), Filled)

\* soup.find_all('a', href=True) of line 52.
find_all_a_href(doc) == FindAll(doc, "a", "href")

\* soup.get_text(strip=True): every text stripped, the empty ones dropped,
\* joined.
RECURSIVE TextWords(_)
TextWords(w) ==
    IF w = <<>> THEN <<>>
    ELSE IF Head(w) = " " THEN TextWords(Tail(w)) ELSE w

RECURSIVE get_text(_)
get_text(doc) ==
    IF doc = <<>> THEN <<>>
    ELSE LET t == TextWords(Head(doc).text)
             r == IF t # <<>> /\ t[Len(t)] = " " THEN SubSeq(t, 1, Len(t) - 1) ELSE t IN
         r \o get_text(Tail(doc))

\* extract_email_data(raw_email_content): [ok, text, links], or the
\* exception BeautifulSoup raises on a value that is no markup.
extract_email_data(raw) ==
    IF raw.t = "str"
    THEN LET anchors == find_all_a_href(raw.doc) IN
         [ok |-> TRUE,
          text |-> get_text(raw.doc),
          links |-> [n \in 1..Len(anchors) |-> anchors[n].attrs["href"]]]
    ELSE [ok |-> FALSE,
          exc |-> Exc("TypeError", <<"object of type", PyTypeName(raw), "has no len()">>)]

-----------------------------------------------------------------------------
(* scan_links_with_virustotal                                              *)

\* link.startswith(prefix), prefix one of the two scheme words.
startswith(link, prefix) == link # <<>> /\ Head(link) = prefix

\* Mutant of Normalize: only the https:// prefix is looked for.
Normalize_HttpsOnly(link) ==
    IF ~startswith(link, "https://") THEN <<"https://">> \o link ELSE link

\* Lines 122-123: the link as submitted.
Normalize(link) ==
    IF ~startswith(link, "http://") /\ ~startswith(link, "https://")
    THEN <<"https://">> \o link
    ELSE link

Stats(f) == JObj([k \in {"data"} |-> JObj([a \in {"attributes"} |->
                JObj([x \in {"status", "stats"} |->
                        IF x = "stats" THEN f ELSE JStr(<<"completed">>)])])])

\* What requests.post(...).json() can produce: the call raises, the body
\* does not decode, or a decoded body.
SubmitOutcomes ==
    { [kind |-> "raise", exc |-> Exc("ConnectionError", <<"Max retries exceeded">>)],
      [kind |-> "raise", exc |-> Exc("JSONDecodeError", <<"Expecting value">>)],
      [kind |-> "json", val |-> JObj([k \in {"error"} |-> JStr(<<"QuotaExceededError">>)])],
      [kind |-> "json", val |-> JObj([k \in {"data"} |-> JObj([a \in {"type"} |-> JStr(<<"analysis">>)])])],
      [kind |-> "json", val |-> JObj([k \in {"data"} |-> JNull])],
      [kind |-> "json", val |-> JObj([k \in {"data"} |->
                    JObj([a \in {"type", "id"} |-> IF a = "id" THEN JStr(<<"u-1">>) ELSE JStr(<<"analysis">>)])])] }

\* What requests.get(...).json() can produce.
DetailsOutcomes ==
    { [kind |-> "raise", exc |-> Exc("ConnectionError", <<"Max retries exceeded">>)],
      [kind |-> "raise", exc |-> Exc("JSONDecodeError", <<"Expecting value">>)],
      [kind |-> "json", val |-> JObj([k \in {"error"} |-> JStr(<<"NotFoundError">>)])],
      [kind |-> "json", val |-> JObj([k \in {"data"} |-> JObj([a \in {"id"} |-> JStr(<<"u-1">>)])])],
      [kind |-> "json", val |-> JObj([k \in {"data"} |->
                    JObj([a \in {"attributes"} |-> JObj([x \in {"status"} |-> JStr(<<"queued">>)])])])],
      [kind |-> "json", val |-> Stats(JNull)],
      [kind |-> "json", val |-> Stats(JObj([x \in {"malicious"} |-> JInt(1)]))],
      [kind |-> "json", val |-> Stats(JObj([x \in {"malicious", "suspicious", "undetected", "harmless"} |->
                    CASE x = "malicious" -> JInt(5) [] x = "suspicious" -> JInt(2)
                      [] x = "undetected" -> JInt(10) [] OTHER -> JInt(60)]))] }

\* No details call was made.
NoCall == [kind |-> "none"]

\* stats.get(key, 0)
StatsGet(stats, key) ==
    IF stats.t # "dict"
    THEN [ok |-> FALSE,
          exc |-> Exc("AttributeError", <<PyTypeName(stats), "object has no attribute 'get'">>)]
    ELSE [ok |-> TRUE, val |-> IF key \in DOMAIN stats.f THEN stats.f[key] ELSE JInt(0)]

Raise(e) == [ok |-> FALSE, exc |-> e]

\* 'data' in v and key in v['data'] (lines 133 and 143).
DataHas(v, key) ==
    LET c1 == PyIn("data", v) IN
    IF ~c1.ok THEN c1
    ELSE IF ~c1.val THEN [ok |-> TRUE, val |-> FALSE]
    ELSE LET d == PyGetItem(v, "data") IN
         IF ~d.ok THEN d ELSE PyIn(key, d.val)

ErrorEntry(msg) == [k \in {"error"} |-> JStr(<<msg>>)]

\* Lines 143-151: the entry recorded from a decoded details body.
DetailsEntry(details_data) ==
    LET c == DataHas(details_data, "attributes") IN
    IF ~c.ok THEN c
    ELSE IF ~c.val THEN [ok |-> TRUE, val |-> ErrorEntry("Details not found")]
    ELSE LET stats == PyGetItem(details_data.f["data"].f["attributes"], "stats") IN
         IF ~stats.ok THEN stats
         ELSE LET m == StatsGet(stats.val, "malicious")
                  su == StatsGet(stats.val, "suspicious")
                  u == StatsGet(stats.val, "undetected") IN
              IF ~m.ok THEN m
              ELSE [ok |-> TRUE,
                    val |-> [k \in {"malicious", "suspicious", "undetected"} |->
                               CASE k = "malicious" -> m.val
                                 [] k = "suspicious" -> su.val
                                 [] OTHER -> u.val]]

\* Line 133, on what the submit call produced: [ok, val], val being whether
\* the details call is made; or the exception raised up to there.
SubmitHasId(sub) ==
    IF sub.kind = "raise" THEN Raise(sub.exc) ELSE DataHas(sub.val, "id")

\* Mutant of ScanLink: a missing analysis id ends the scan.
ScanLink_AbortOnMissingId(link, sub, det) ==
    LET has == SubmitHasId(sub) IN
    IF ~has.ok THEN has
    ELSE IF ~has.val THEN Raise(Exc("ValueError", <<"Submission failed">>))
    ELSE IF det.kind = "raise" THEN Raise(det.exc)
    ELSE LET e == DetailsEntry(det.val) IN
         IF ~e.ok THEN e
         ELSE [ok |-> TRUE, key |-> Normalize(link), entry |-> e.val]

\* One turn of the loop of lines 120-153 for a link, given what the two
\* calls produce (det is read only when the details call is made):
\* [ok, key, entry], or the exception that leaves the function.
ScanLink(link, sub, det) ==
    LET has == SubmitHasId(sub) IN
    IF ~has.ok THEN has
    ELSE IF ~has.val
    THEN [ok |-> TRUE, key |-> Normalize(link), entry |-> ErrorEntry("Submission failed")]
    ELSE IF det.kind = "raise" THEN Raise(det.exc)
    ELSE LET e == DetailsEntry(det.val) IN
         IF ~e.ok THEN e
         ELSE [ok |-> TRUE, key |-> Normalize(link), entry |-> e.val]

\* The calls one turn of the loop makes, in order.
CallsOf(link, sub) ==
    LET has == SubmitHasId(sub)
        post == [op |-> "POST /urls", arg |-> Normalize(link)] IN
    IF has.ok /\ has.val
    THEN <<post, [op |-> "GET /analyses", arg |-> sub.val.f["data"].f["id"].s]>>
    ELSE <<post>>

-----------------------------------------------------------------------------
(* analyze_with_chatgpt                                                    *)

Obj1(key, valtoks) == <<Punct("{"), StrTok(key), Punct(":")>> \o valtoks \o <<Punct("}")>>

\* What openai.ChatCompletion.create can produce: an exception, or the text
\* of the first choice.
ModelOutcomes ==
    { [kind |-> "raise", exc |-> Exc("RateLimitError", <<"You exceeded your current quota">>)],
      [kind |-> "text", content |-> Obj1("phishingScore", <<NumTok(87)>>)],
      [kind |-> "text", content |-> <<Space>> \o Obj1("phishingScore", <<Space, NumTok(0)>>) \o <<Space, Space>>],
      [kind |-> "text", content |-> Obj1("phishingScore", <<NumTok(150)>>)],
      [kind |-> "text", content |-> Obj1("phishingScore", <<NumTok(-1)>>)],
      [kind |-> "text", content |-> Obj1("phishingScore", <<StrTok("high")>>)],
      [kind |-> "text", content |-> Obj1("phishingScore", <<LitTok("null")>>)],
      [kind |-> "text", content |-> Obj1("phishingScore", Obj1("error", <<StrTok("n/a")>>))],
      [kind |-> "text", content |-> Obj1("score", <<NumTok(87)>>)],
      [kind |-> "text", content |-> <<Punct("{"), Punct("}")>>],
      [kind |-> "text", content |-> <<Punct("["), NumTok(87), Punct("]")>>],
      [kind |-> "text", content |-> <<NumTok(87)>>],
      [kind |-> "text", content |-> <<StrTok("phishingScore")>>],
      [kind |-> "text", content |-> <<Word("Sure!"), Space>> \o Obj1("phishingScore", <<NumTok(87)>>)],
      [kind |-> "text", content |-> Obj1("phishingScore", <<NumTok(87)>>) \o <<Space, Word("(high)")>>],
      [kind |-> "text", content |-> <<>>],
      [kind |-> "none"] }

\* Line 111: the value returned from the except clause.
AssessError(e) == JObj([k \in {"error"} |-> JStr(<<"OpenAI API error: ">> \o e.msg)])

\* Lines 93-109, given what the completion call produces: [ok, val], or the
\* exception raised inside the try block.
AssessBody(out) ==
    CASE out.kind = "raise" -> Raise(out.exc)
      [] out.kind = "none" ->
            Raise(Exc("AttributeError", <<"NoneType", "object has no attribute 'strip'">>))
      [] OTHER ->
            LET response_json == json_loads(Strip(out.content)) IN
            IF ~response_json.ok THEN response_json
            ELSE PyGetItem(response_json.val, "phishingScore")

\* Mutant of analyze_with_chatgpt: the except clause catches decoding errors
\* only.
analyze_with_chatgpt_CatchDecodeOnly(out) ==
    LET r == AssessBody(out) IN
    IF r.ok \/ r.exc.type # "JSONDecodeError" THEN r
    ELSE [ok |-> TRUE, val |-> AssessError(r.exc)]

\* Lines 60-111: the try block, and the except clause that turns whatever it
\* raised into the error object.
analyze_with_chatgpt(out) ==
    LET r == AssessBody(out) IN
    IF r.ok THEN r ELSE [ok |-> TRUE, val |-> AssessError(r.exc)]

-----------------------------------------------------------------------------
(* analyze_email                                                           *)

NoResponse == [status |-> "none"]

\* Mutant of OkResponse: an assessor error object becomes a 500.
OkResponse_ErrorAs500(score, vt) ==
    IF score.t = "dict" /\ "error" \in DOMAIN score.f
    THEN [status |-> "500", body |-> [json |-> score.f]]
    ELSE [status |-> "200",
          body |-> [json |-> [k \in {"phishingScore", "virusTotalResults"} |->
                                IF k = "phishingScore" THEN score ELSE vt]]]

\* jsonify(...) of lines 38-41, status 200.
OkResponse(score, vt) ==
    [status |-> "200",
     body |-> [json |-> [k \in {"phishingScore", "virusTotalResults"} |->
                           IF k = "phishingScore" THEN score ELSE vt]]]

\* Line 43.
ErrorResponse(e) ==
    [status |-> "500", body |-> [json |-> [k \in {"error"} |-> JStr(e.msg)]]]

\* What Flask answers when an exception leaves the view function.
UnhandledResponse == [status |-> "500", body |-> [html |-> "Internal Server Error"]]

NotRaised == [step |-> "none", exc |-> NoException]

\* The request bodies: an object carrying a markup string, an object without
\* emailContent, an object whose emailContent is no string, and a body that
\* is no object.
Bodies ==
    {JObj([k \in {"emailContent"} |-> JMarkup(d)]) : d \in Docs}
        \cup { JObj(EmptyDict),
               JObj([k \in {"emailContent"} |-> JNull]),
               JNull }

Init ==
    /\ pc = "start"
    /\ body \in Bodies
    /\ email_text = <<>>
    /\ links = <<>>
    /\ i = 0
    /\ analysis_results = [k \in {} |-> ErrorEntry("")]
    /\ calls = <<>>
    /\ served = <<>>
    /\ raised = NotRaised
    /\ reply = [kind |-> "pending"]
    /\ phishing_score = JNull
    /\ response = NoResponse

\* data.get('emailContent', '') of line 26.
DataGet(data) ==
    IF data.t # "dict"
    THEN Raise(Exc("AttributeError", <<PyTypeName(data), "object has no attribute 'get'">>))
    ELSE [ok |-> TRUE,
          val |-> IF "emailContent" \in DOMAIN data.f THEN data.f["emailContent"] ELSE JMarkup(<<>>)]

\* Lines 25-29, which run outside the try block.
Extraction(data) ==
    LET raw == DataGet(data) IN
    IF ~raw.ok THEN [ok |-> FALSE, step |-> "request", exc |-> raw.exc]
    ELSE LET ex == extract_email_data(raw.val) IN
         IF ~ex.ok THEN [ok |-> FALSE, step |-> "extract", exc |-> ex.exc]
         ELSE ex

\* Lines 25-29: the body is read and extraction runs; an exception here
\* leaves the view function.
Receive ==
    /\ pc = "start"
    /\ LET ex == Extraction(body) IN
       IF ex.ok
       THEN /\ email_text' = ex.text
            /\ links' = ex.links
            /\ pc' = IF ex.links = <<>> THEN "assess" ELSE "scan"
            /\ UNCHANGED <<raised, response>>
       ELSE /\ raised' = [step |-> ex.step, exc |-> ex.exc]
            /\ response' = UnhandledResponse
            /\ pc' = "done"
            /\ UNCHANGED <<email_text, links>>
    /\ UNCHANGED <<body, i, analysis_results, calls, served, reply, phishing_score>>

\* Line 33, one turn of the loop of scan_links_with_virustotal; an exception
\* leaves the function and is caught at line 42.
Scan ==
    /\ pc = "scan"
    /\ i < Len(links)
    /\ \E sub \in SubmitOutcomes :
         LET has == SubmitHasId(sub) IN
         \E det \in IF has.ok /\ has.val THEN DetailsOutcomes ELSE {NoCall} :
            LET link == links[i + 1]
                r == ScanLink(link, sub, det) IN
            /\ calls' = calls \o CallsOf(link, sub)
            /\ served' = Append(served, [submit |-> sub, details |-> det])
            /\ IF r.ok
               THEN /\ analysis_results' = DictPut(analysis_results, r.key, r.entry)
                    /\ i' = i + 1
                    /\ pc' = IF i + 1 = Len(links) THEN "assess" ELSE "scan"
                    /\ UNCHANGED <<raised, response>>
               ELSE /\ raised' = [step |-> "scan", exc |-> r.exc]
                    /\ response' = ErrorResponse(r.exc)
                    /\ pc' = "done"
                    /\ UNCHANGED <<analysis_results, i>>
    /\ UNCHANGED <<body, email_text, links, reply, phishing_score>>

\* Lines 36-43: the assessment and the response.
Assess ==
    /\ pc = "assess"
    /\ \E out \in ModelOutcomes :
         LET r == analyze_with_chatgpt(out) IN
         /\ reply' = out
         /\ IF r.ok
            THEN /\ phishing_score' = r.val
                 /\ response' = OkResponse(r.val, analysis_results)
                 /\ UNCHANGED raised
            ELSE /\ raised' = [step |-> "assess", exc |-> r.exc]
                 /\ response' = ErrorResponse(r.exc)
                 /\ UNCHANGED phishing_score
    /\ pc' = "done"
    /\ UNCHANGED <<body, email_text, links, i, analysis_results, calls, served>>

Next == Receive \/ Scan \/ Assess

Spec == Init /\ [][Next]_vars

-----------------------------------------------------------------------------
(* Properties.  What the statements expect is written out here from the    *)
(* shape of the inputs, apart from the operators above.                    *)

\* The scan loop has run to its end and the function returned.
ScanReturned == pc \in {"assess", "done"} /\ raised.step \notin {"request", "extract", "scan"}

\* A link with an explicit scheme, as the statements describe it.
NormalizedForm(link) ==
    IF link # <<>> /\ link[1] \in {"http://", "https://"} THEN link ELSE <<"https://">> \o link

\* No link after the n-th one, among those scanned, has its normalized form.
LastOcc(n) == \A m \in (n + 1)..i : NormalizedForm(links[m]) # NormalizedForm(links[n])

\* The submit answer is a body that holds no analysis id.
LacksId(sub) ==
    /\ sub.kind = "json"
    /\ sub.val.t = "dict"
    /\ \/ "data" \notin DOMAIN sub.val.f
       \/ /\ sub.val.f["data"].t = "dict"
          /\ "id" \notin DOMAIN sub.val.f["data"].f

\* The submit answer is a body that holds an analysis id.
HasAnalysisId(sub) ==
    /\ sub.kind = "json"
    /\ sub.val.t = "dict"
    /\ "data" \in DOMAIN sub.val.f
    /\ sub.val.f["data"].t = "dict"
    /\ "id" \in DOMAIN sub.val.f["data"].f

\* The details body has no data, no data.attributes or no
\* data.attributes.stats.
LacksStats(v) ==
    \/ "data" \notin DOMAIN v.f
    \/ "attributes" \notin DOMAIN v.f["data"].f
    \/ "stats" \notin DOMAIN v.f["data"].f["attributes"].f

StatsDict(v) == v.f["data"].f["attributes"].f["stats"]

CountOr0(stats, k) == IF k \in DOMAIN stats.f THEN stats.f[k] ELSE JInt(0)

ThreeCounts(stats) ==
    [k \in {"malicious", "suspicious", "undetected"} |-> CountOr0(stats, k)]

\* The entry the statements expect for a link from what the service answered.
ExpectedEntry(s) ==
    IF LacksId(s.submit) THEN ErrorEntry("Submission failed")
    ELSE IF LacksStats(s.details.val) THEN ErrorEntry("Details not found")
    ELSE ThreeCounts(StatsDict(s.details.val))

\* The URLs submitted, in call order.
Posts ==
    LET IsPost(c) == c.op = "POST /urls"
        sel == SelectSeq(calls, IsPost) IN
    [n \in 1..Len(sel) |-> sel[n].arg]

Gets == LET IsGet(c) == c.op = "GET /analyses" IN SelectSeq(calls, IsGet)

IsErrorObject(v) == v.t = "dict" /\ "error" \in DOMAIN v.f

IsAssessError(v) ==
    /\ v.t = "dict"
    /\ DOMAIN v.f = {"error"}
    /\ v.f["error"].t = "str"
    /\ v.f["error"].s # <<>>
    /\ Head(v.f["error"].s) = "OpenAI API error: "

\* C1: whenever extraction, scanning or assessment raises, the handler
\* catches it and answers 500 with the body {"error": <message>}; no
\* exception leaves the handler.
C1_EveryStepFailureIsCaught ==
    raised.step \in {"extract", "scan", "assess"} =>
        /\ response = [status |-> "500",
                       body |-> [json |-> [k \in {"error"} |-> JStr(raised.exc.msg)]]]
        /\ response # UnhandledResponse

\* C2: a transport failure or an undecodable response on the submit or the
\* details call of a link does not make the scan raise: the loop goes on past
\* that link, the link's entry is an error entry, and the request does not
\* end in a 500.
C2_LinkFailureIsRecorded ==
    \A n \in DOMAIN served :
        (served[n].submit.kind = "raise" \/ served[n].details.kind = "raise") =>
            /\ raised.step # "scan"
            /\ response.status # "500"
            /\ n <= i
            /\ LastOcc(n) => /\ NormalizedForm(links[n]) \in DOMAIN analysis_results
                             /\ DOMAIN analysis_results[NormalizedForm(links[n])] = {"error"}

\* C3: when the scan and the assessment both returned, the response is 200
\* with exactly the fields phishingScore and virusTotalResults, the latter the
\* mapping the scan returned, the former what the assessor returned, an error
\* object included.
C3_SuccessIs200WithBothFields ==
    (pc = "done" /\ reply.kind # "pending" /\ raised.step = "none") =>
        /\ response.status = "200"
        /\ DOMAIN response.body = {"json"}
        /\ DOMAIN response.body.json = {"phishingScore", "virusTotalResults"}
        /\ response.body.json["virusTotalResults"] = analysis_results
        /\ response.body.json["phishingScore"] = phishing_score

C3_Witness ==
    /\ pc = "done"
    /\ response.status = "200"
    /\ IsAssessError(response.body.json["phishingScore"])
    /\ Cardinality(DOMAIN response.body.json["virusTotalResults"]) = 2

\* Whitespace removed from a reply.
Squeeze(content) == LET NotSpace(t) == t # Space IN SelectSeq(content, NotSpace)

\* The values a reply may hold under phishingScore, as text and as decoded.
ScoreForms ==
    { [toks |-> <<NumTok(87)>>, val |-> JInt(87)],
      [toks |-> <<NumTok(0)>>, val |-> JInt(0)],
      [toks |-> <<NumTok(150)>>, val |-> JInt(150)],
      [toks |-> <<NumTok(-1)>>, val |-> JInt(-1)],
      [toks |-> <<StrTok("high")>>, val |-> JStr(<<"high">>)],
      [toks |-> <<LitTok("null")>>, val |-> JNull],
      [toks |-> <<Punct("{"), StrTok("error"), Punct(":"), StrTok("n/a"), Punct("}")>>,
       val |-> JObj([k \in {"error"} |-> JStr(<<"n/a">>)])] }

ScoreObject(f) == <<Punct("{"), StrTok("phishingScore"), Punct(":")>> \o f.toks \o <<Punct("}")>>

\* C4: analyze_with_chatgpt never raises; a reply that is a JSON object
\* with the key phishingScore, whitespace around it allowed, yields that key's
\* value, and every other outcome of the call yields the error object
\* {error: "OpenAI API error: <message>"}.
C4_AssessorNeverRaises ==
    (pc = "done" /\ reply.kind # "pending") =>
        /\ raised.step # "assess"
        /\ IF reply.kind = "text"
              /\ \E f \in ScoreForms : Squeeze(reply.content) = ScoreObject(f)
           THEN \A f \in ScoreForms :
                    Squeeze(reply.content) = ScoreObject(f) => phishing_score = f.val
           ELSE IsAssessError(phishing_score)

C4_Witness ==
    /\ pc = "done"
    /\ reply.kind = "text"
    /\ Len(reply.content) > Len(Squeeze(reply.content))
    /\ phishing_score = JInt(0)
    /\ response.status = "200"

\* C5: a link whose submit answer holds an id and whose details body lacks
\* data, data.attributes or data.attributes.stats gets {error: "Details not
\* found"} and the loop goes on; a details body with stats gets exactly the
\* three counts, each 0 when absent.
C5_MissingStatsIsDetailsNotFound ==
    \A n \in DOMAIN served :
        (HasAnalysisId(served[n].submit) /\ served[n].details.kind = "json") =>
            IF LacksStats(served[n].details.val)
            THEN /\ n <= i
                 /\ LastOcc(n) =>
                        analysis_results[NormalizedForm(links[n])] = ErrorEntry("Details not found")
            ELSE StatsDict(served[n].details.val).t = "dict" =>
                 /\ n <= i
                 /\ LastOcc(n) =>
                        analysis_results[NormalizedForm(links[n])]
                            = ThreeCounts(StatsDict(served[n].details.val))

C7_KeysAreNormalizedLinks ==
    ScanReturned =>
        DOMAIN analysis_results = {NormalizedForm(links[n]) : n \in DOMAIN links}

C7_Witness ==
    /\ ScanReturned
    /\ Len(links) = 2
    /\ links[1] = <<"a.com">>
    /\ links[2] = <<"http://", "b.com">>
    /\ DOMAIN analysis_results = {<<"https://", "a.com">>, <<"http://", "b.com">>}

\* C8: the phishingScore of every 200 response is an integer in 0..100 or
\* an error object.
C8_ScoreInRangeOrError ==
    response.status = "200" =>
        LET v == response.body.json["phishingScore"] IN
        \/ v.t = "int" /\ v.n \in 0..100
        \/ IsErrorObject(v)

\* C9: two links with the same normalized form are both submitted, in
\* list order, and the mapping holds the later one's result.
C9_DuplicateLastWriteWins ==
    ScanReturned =>
        /\ Posts = [n \in DOMAIN links |-> NormalizedForm(links[n])]
        /\ \A m, n \in DOMAIN links :
              (m < n /\ NormalizedForm(links[m]) = NormalizedForm(links[n]) /\ LastOcc(n)) =>
                  analysis_results[NormalizedForm(links[n])] = ExpectedEntry(served[n])

C9_Witness ==
    /\ ScanReturned
    /\ Len(links) = 2
    /\ links[1] = <<"a.com">>
    /\ links[2] = <<"https://", "a.com">>
    /\ ExpectedEntry(served[1]) # ExpectedEntry(served[2])
    /\ Posts = << <<"https://", "a.com">>, <<"https://", "a.com">> >>
    /\ analysis_results[<<"https://", "a.com">>] = ErrorEntry("Submission failed")

\* The document of the request body, once extraction has run.
Extracted == pc # "start" /\ raised.step \notin {"request", "extract"}

Doc == IF "emailContent" \in DOMAIN body.f THEN body.f["emailContent"].doc ELSE <<>>

HrefsOf(anchors) == [n \in 1..Len(anchors) |-> anchors[n].attrs["href"]]

\* C10 as stated: links holds the href of every anchor that has a
\* non-empty href, in document order, duplicates kept.
C10_LinksAreNonEmptyHrefs ==
    Extracted =>
        LET HasNonEmptyHref(n) ==
                n.tag = "a" /\ "href" \in DOMAIN n.attrs /\ n.attrs["href"] # <<>> IN
        links = HrefsOf(SelectSeq(Doc, HasNonEmptyHref))

\* C10 amended: links holds the href of every anchor that has an href
\* attribute, an empty one included, in document order, duplicates kept; an
\* anchor without href contributes nothing.
C10_LinksAreHrefsInOrder ==
    Extracted =>
        LET HasHref(n) == n.tag = "a" /\ "href" \in DOMAIN n.attrs IN
        links = HrefsOf(SelectSeq(Doc, HasHref))

C10_Witness ==
    /\ Extracted
    /\ Len(Doc) = 2
    /\ Doc[1] = BareAnchor
    /\ Doc[2] = Anchor(<<>>)
    /\ links = << <<>> >>

====
